---- MODULE Spec2Model ----
(***************************************************************************)
(* web3diag: the StatsCollector (trace collector and byte sink) and the    *)
(* reporters that render a collector snapshot.                             *)
(*                                                                         *)
(* Time.  Go's time.Time is a pair (seconds, nanoseconds).  An int64       *)
(* nanosecond timestamp (UnixNano) is kept here as the pair <<sec, nsec>>  *)
(* with value sec * NsPerSec + nsec and 0 <= nsec < NsPerSec, so that the  *)
(* real factor of 1000000000 between Unix() and UnixNano() is kept.  The   *)
(* unset timestamp (Go's zero value 0) is <<0, 0>>.                        *)
(*                                                                         *)
(* The byte counters are uint64 in the source; a run is bounded by the     *)
(* client's 30 s timeout, far below 2^64 bytes, so they are naturals here. *)
(***************************************************************************)
EXTENDS Integers, Sequences, FiniteSets, TLC

VARIABLES
    c,        \* the StatsCollector (httpStats)
    clock,    \* the wall clock, <<sec, nsec>>
    written,  \* history of the byte-sink Write calls: what each saw and returned
    hooks,    \* number of lifecycle hook / setter calls made so far
    out,      \* outcome of the latest Report call
    run,      \* main's own state: where it is, its flags, what it has printed
    calls     \* history of the calls the transport and main made on the collector

vars == <<c, clock, written, hooks, out, run, calls>>

----------------------------------------------------------------------------
(* Bounds of the model *)

MaxSec == 3        \* the clock runs from second 1 to the end of second MaxSec
MaxWrites == 2     \* Write calls in one run
MaxHooks == 1      \* lifecycle hook / setter calls in one run

ChunkSizes == {10, 20}

(* Program constant: nanoseconds per second *)
NsPerSec == 1000000000

Nil == "<nil>"     \* Go's nil (error, net.Addr), as fmt prints it

----------------------------------------------------------------------------
(* Time *)

ZeroNs == <<0, 0>>

UnixNano(t) == t

Unix(t) == t[1]

\* the clock one half second later
Later(t) == IF t[2] + (NsPerSec \div 2) >= NsPerSec
            THEN <<t[1] + 1, t[2] + (NsPerSec \div 2) - NsPerSec>>
            ELSE <<t[1], t[2] + (NsPerSec \div 2)>>

RECURSIVE SumSeq(_)
SumSeq(s) == IF s = <<>> THEN 0 ELSE Head(s) + SumSeq(Tail(s))

----------------------------------------------------------------------------
(* The collector *)

NoHeaders == [k \in {} |-> <<>>]

StatsCollector ==
    [ TotalBytes      |-> 0,
      CurrentSecond   |-> 0,
      CurrentSecBytes |-> 0,
      PerSecond       |-> <<>>,
      StartTime       |-> ZeroNs,
      EndTime         |-> ZeroNs,
      Dns        |-> [StartTime |-> ZeroNs, EndTime |-> ZeroNs, Host |-> "", Addrs |-> <<>>],
      Tls        |-> [StartTime |-> ZeroNs, EndTime |-> ZeroNs, Version |-> 0,
                      ServerName |-> "", CipherSuite |-> 0],
      Connection |-> [StartTime |-> ZeroNs, EndTime |-> ZeroNs, Protocol |-> "",
                      Address |-> "", Error |-> Nil],
      Session    |-> [StartTime |-> ZeroNs, EndTime |-> ZeroNs, HostPort |-> "",
                      Local |-> Nil, Remote |-> Nil],
      Request    |-> [StartTime |-> ZeroNs, Error |-> Nil],
      FirstByteTime   |-> ZeroNs,
      RequestHeaders  |-> NoHeaders,
      ResponseHeaders |-> NoHeaders ]

NoOutcome == [rep |-> "", res |-> [kind |-> "none"]]

\* main is not running: the collector is used on its own
NotRun == [pc |-> "none"]

----------------------------------------------------------------------------
(* StatsCollector's methods.  Each takes the collector s and what the method
   reads (its arguments, time.Now()) and gives the collector afterwards. *)

SetRequestHeaders(s, h) == [s EXCEPT !.RequestHeaders = h]

SetResponseHeaders(s, h) == [s EXCEPT !.ResponseHeaders = h]

\* a variant that starts a new second whenever curr >= CurrentSecond
WriteRollsAlways(s, n, curr) ==
    LET t == [s EXCEPT !.TotalBytes = @ + n]
        u == IF curr >= t.CurrentSecond
             THEN [t EXCEPT !.PerSecond = Append(@, t.CurrentSecBytes),
                            !.CurrentSecBytes = 0,
                            !.CurrentSecond = curr]
             ELSE t
    IN [c |-> [u EXCEPT !.CurrentSecBytes = @ + n], n |-> n, err |-> Nil]

\* a variant that does not reset the accumulator at a second boundary
WriteNoReset(s, n, curr) ==
    LET t == [s EXCEPT !.TotalBytes = @ + n]
        u == IF curr > t.CurrentSecond
             THEN [t EXCEPT !.PerSecond = Append(@, t.CurrentSecBytes),
                            !.CurrentSecond = curr]
             ELSE t
    IN [c |-> [u EXCEPT !.CurrentSecBytes = @ + n], n |-> n, err |-> Nil]

\* a variant that counts the chunk into the total only at a second boundary
WriteTotalAtBoundary(s, n, curr) ==
    LET u == IF curr > s.CurrentSecond
             THEN [s EXCEPT !.TotalBytes = @ + n,
                            !.PerSecond = Append(@, s.CurrentSecBytes),
                            !.CurrentSecBytes = 0,
                            !.CurrentSecond = curr]
             ELSE s
    IN [c |-> [u EXCEPT !.CurrentSecBytes = @ + n], n |-> n, err |-> Nil]

\* Write(p) with n = len(p) and curr = time.Now().Unix(); gives the collector
\* and the two values returned
Write(s, n, curr) ==
    LET t == [s EXCEPT !.TotalBytes = @ + n]
        u == IF curr > t.CurrentSecond
             THEN [t EXCEPT !.PerSecond = Append(@, t.CurrentSecBytes),
                            !.CurrentSecBytes = 0,
                            !.CurrentSecond = curr]
             ELSE t
    IN [c |-> [u EXCEPT !.CurrentSecBytes = @ + n], n |-> n, err |-> Nil]

StartDns(s, now, host) ==
    [s EXCEPT !.Dns.StartTime = UnixNano(now), !.Dns.Host = host]

EndDns(s, now, addrs) ==
    [s EXCEPT !.Dns.EndTime = UnixNano(now), !.Dns.Addrs = addrs]

WroteRequest(s, now, e) ==
    [s EXCEPT !.Request.StartTime = UnixNano(now), !.Request.Error = e]

StartConnect(s, now, network, addr) ==
    [s EXCEPT !.Connection.StartTime = UnixNano(now),
              !.Connection.Protocol = network,
              !.Connection.Address = addr]

\* a variant that, on a failed connect, records the error and nothing else
EndConnectErrorOnly(s, now, network, addr, err) ==
    IF err # Nil
    THEN [s EXCEPT !.Connection.Error = err]
    ELSE [s EXCEPT !.Connection.EndTime = UnixNano(now),
                   !.Connection.Protocol = network,
                   !.Connection.Address = addr,
                   !.Connection.Error = err]

EndConnect(s, now, network, addr, err) ==
    [s EXCEPT !.Connection.EndTime = UnixNano(now),
              !.Connection.Protocol = network,
              !.Connection.Address = addr,
              !.Connection.Error = err]

StartSession(s, now, hostPort) ==
    [s EXCEPT !.Session.StartTime = UnixNano(now), !.Session.HostPort = hostPort]

GotSession(s, now, local, remote) ==
    [s EXCEPT !.Session.EndTime = UnixNano(now),
              !.Session.Local = local,
              !.Session.Remote = remote]

\* a variant that starts the accumulator afresh in the second it records
FirstByteReceivedResets(s, now) ==
    [s EXCEPT !.FirstByteTime = UnixNano(now), !.CurrentSecond = Unix(now),
              !.CurrentSecBytes = 0]

FirstByteReceived(s, now) ==
    [s EXCEPT !.FirstByteTime = UnixNano(now), !.CurrentSecond = Unix(now)]

StartTls(s, now) == [s EXCEPT !.Tls.StartTime = UnixNano(now)]

EndTls(s, now, v, cs, n) ==
    [s EXCEPT !.Tls.EndTime = UnixNano(now),
              !.Tls.Version = v,
              !.Tls.CipherSuite = cs,
              !.Tls.ServerName = n]

Start(s, now) == [s EXCEPT !.StartTime = UnixNano(now)]

\* a variant that closes the second in progress into the series
StopFlushes(s, now) ==
    [s EXCEPT !.EndTime = UnixNano(now),
              !.PerSecond = Append(@, s.CurrentSecBytes),
              !.CurrentSecBytes = 0]

Stop(s, now) == [s EXCEPT !.EndTime = UnixNano(now)]

TotalBytesTransferred(s) == s.TotalBytes

----------------------------------------------------------------------------
(* What the transport hands to the hooks *)

Hosts == {"ipfs.io"}
HostPorts == {"ipfs.io:443"}
IPAddrs == {<<"209.94.90.1">>}
Networks == {"tcp"}
Addresses == {"209.94.90.1:443"}
ConnErrors == {Nil, "connection refused"}
WriteErrors == {Nil, "broken pipe"}
LocalAddrs == {"192.168.0.6:56985"}
TlsVersions == {772}
CipherSuites == {4865}

\* req.Header as main builds it: empty, or the -noCache headers
NoCacheHeaders ==
    [k \in {"Pragma", "Cache-Control", "Expires"} |->
        CASE k = "Pragma" -> <<"no-cache">>
          [] k = "Cache-Control" -> <<"no-cache", "no-store", "must-revalidate">>
          [] k = "Expires" -> <<"0">>]

RequestHeaderMaps == {NoHeaders, NoCacheHeaders}

PlainResponse == [k \in {"Content-Type"} |-> <<"text/html">>]

ResponseHeaderMaps == {PlainResponse}

----------------------------------------------------------------------------
(* The collector in use: the transport fires the hooks, the body copy drives
   Write, and the clock moves on between calls.  The collector is a passive
   recorder and enforces no order, so none is imposed here. *)

Init ==
    /\ c = StatsCollector
    /\ clock = <<1, 0>>
    /\ written = <<>>
    /\ hooks = 0
    /\ out = NoOutcome
    /\ run = NotRun
    /\ calls = <<>>

Tock ==
    /\ Unix(Later(clock)) <= MaxSec
    /\ clock' = Later(clock)
    /\ UNCHANGED <<c, written, hooks, out, run, calls>>

Hook(s) ==
    /\ hooks < MaxHooks
    /\ hooks' = hooks + 1
    /\ c' = s
    /\ UNCHANGED <<clock, written, out, run, calls>>

DNSStart == \E host \in Hosts : Hook(StartDns(c, clock, host))

DNSDone == \E addrs \in IPAddrs : Hook(EndDns(c, clock, addrs))

TLSHandshakeStart == Hook(StartTls(c, clock))

TLSHandshakeDone ==
    \E v \in TlsVersions, cs \in CipherSuites, n \in Hosts :
        Hook(EndTls(c, clock, v, cs, n))

ConnectStart ==
    \E net \in Networks, addr \in Addresses : Hook(StartConnect(c, clock, net, addr))

ConnectDone ==
    \E net \in Networks, addr \in Addresses, err \in ConnErrors :
        Hook(EndConnect(c, clock, net, addr, err))

GetConn == \E hostPort \in HostPorts : Hook(StartSession(c, clock, hostPort))

GotConn ==
    \E local \in LocalAddrs, remote \in Addresses :
        Hook(GotSession(c, clock, local, remote))

WroteRequestHook == \E e \in WriteErrors : Hook(WroteRequest(c, clock, e))

GotFirstResponseByte == Hook(FirstByteReceived(c, clock))

CallSetRequestHeaders == \E h \in RequestHeaderMaps : Hook(SetRequestHeaders(c, h))

CallSetResponseHeaders == \E h \in ResponseHeaderMaps : Hook(SetResponseHeaders(c, h))

CallStart == Hook(Start(c, clock))

CallStop == Hook(Stop(c, clock))

\* io.Copy through io.TeeReader: one chunk of the body reaches the sink
TeeWrite ==
    \E n \in ChunkSizes :
        LET r == Write(c, n, Unix(clock)) IN
        /\ Len(written) < MaxWrites
        /\ c' = r.c
        /\ written' = Append(written,
               [n |-> n, curr |-> Unix(clock), sec |-> c.CurrentSecond,
                ret |-> r.n, err |-> r.err])
        /\ UNCHANGED <<clock, hooks, out, run, calls>>

Next ==
    \/ Tock
    \/ DNSStart \/ DNSDone
    \/ TLSHandshakeStart \/ TLSHandshakeDone
    \/ ConnectStart \/ ConnectDone
    \/ GetConn \/ GotConn
    \/ WroteRequestHook
    \/ GotFirstResponseByte
    \/ CallSetRequestHeaders \/ CallSetResponseHeaders
    \/ CallStart \/ CallStop
    \/ TeeWrite

Spec == Init /\ [][Next]_vars

----------------------------------------------------------------------------
(* The reporters.  A table is what the reporter hands to the table writer:
   its header and the rows appended, in order; tail is what is written to the
   builder after the table.  Rendering is the table writer's. *)

\* e - s on int64 nanoseconds (float64 is exact at the model's magnitudes)
NsSub(e, s) ==
    IF e[2] - s[2] < 0
    THEN <<e[1] - s[1] - 1, e[2] - s[2] + NsPerSec>>
    ELSE <<e[1] - s[1], e[2] - s[2]>>

\* (e - s) / 1000000000: seconds, as whole seconds plus a fraction frac / NsPerSec
NsDiffInSeconds(e, s) == [int |-> NsSub(e, s)[1], frac |-> NsSub(e, s)[2]]

\* fmt.Sprintf("%f", x): x to six decimal places; the decimal is given by its
\* value in millionths
SprintfF(x) == x.int * 1000000 + ((x.frac + 500) \div 1000)

Table(header, rows, tail) == [header |-> header, rows |-> rows, tail |-> tail]

Ok(ret) == [kind |-> "ok", ret |-> ret, e |-> Nil]
Err(e) == [kind |-> "err", ret |-> "", e |-> e]
Panic(why) == [kind |-> "panic", why |-> why]

\* h[k] == nil: the key is not in the map
IsNil(h, k) == k \notin DOMAIN h

\* h[k][0] cannot be taken
NoFirst(h, k) == IsNil(h, k) \/ Len(h[k]) = 0

\* a variant that refuses a snapshot in which a phase never ran
ConnectionReporterReportStrict(s) ==
    IF \/ s.Dns.EndTime = ZeroNs \/ s.Connection.EndTime = ZeroNs
       \/ s.Tls.EndTime = ZeroNs \/ s.Request.StartTime = ZeroNs
       \/ s.FirstByteTime = ZeroNs
    THEN Err("phase did not run")
    ELSE LET data == << SprintfF(NsDiffInSeconds(s.Dns.EndTime, s.Dns.StartTime)),
                        SprintfF(NsDiffInSeconds(s.Connection.EndTime, s.Connection.StartTime)),
                        SprintfF(NsDiffInSeconds(s.Tls.EndTime, s.Connection.StartTime)),
                        SprintfF(NsDiffInSeconds(s.Request.StartTime, s.Session.EndTime)),
                        SprintfF(NsDiffInSeconds(s.FirstByteTime, s.Request.StartTime)) >>
             IN Ok(Table(<<"DNS Lookup", "Connection", "TLS", "Request", "First Byte">>,
                         <<data>>, <<>>))

\* a variant that takes the fourth duration from the end of the dial
ConnectionReporterReportFromDial(s) ==
    LET data == << SprintfF(NsDiffInSeconds(s.Dns.EndTime, s.Dns.StartTime)),
                   SprintfF(NsDiffInSeconds(s.Connection.EndTime, s.Connection.StartTime)),
                   SprintfF(NsDiffInSeconds(s.Tls.EndTime, s.Connection.StartTime)),
                   SprintfF(NsDiffInSeconds(s.Request.StartTime, s.Connection.EndTime)),
                   SprintfF(NsDiffInSeconds(s.FirstByteTime, s.Request.StartTime)) >>
        hints == << <<s.Dns.Host, s.Dns.Addrs>>,
                    <<s.Connection.Address>>,
                    <<s.Tls.Version, s.Tls.ServerName>>,
                    <<>>,
                    <<>> >>
    IN Ok(Table(<<"DNS Lookup", "Connection", "TLS", "Request", "First Byte">>,
                <<data, hints>>, <<>>))

ConnectionReporterReport(s) ==
    LET data == << SprintfF(NsDiffInSeconds(s.Dns.EndTime, s.Dns.StartTime)),
                   SprintfF(NsDiffInSeconds(s.Connection.EndTime, s.Connection.StartTime)),
                   SprintfF(NsDiffInSeconds(s.Tls.EndTime, s.Connection.StartTime)),
                   SprintfF(NsDiffInSeconds(s.Request.StartTime, s.Session.EndTime)),
                   SprintfF(NsDiffInSeconds(s.FirstByteTime, s.Request.StartTime)) >>
        hints == << <<s.Dns.Host, s.Dns.Addrs>>,
                    <<s.Connection.Address>>,
                    <<s.Tls.Version, s.Tls.ServerName>>,
                    <<>>,
                    <<>> >>
    IN Ok(Table(<<"DNS Lookup", "Connection", "TLS", "Request", "First Byte">>,
                <<data, hints>>, <<>>))

\* a variant that appends one row per key, with the key's first value
RECURSIVE SectionRowsPerKey(_, _, _)
SectionRowsPerKey(section, h, keys) ==
    IF keys = <<>> THEN <<>>
    ELSE [i \in 1..(IF Len(h[Head(keys)]) = 0 THEN 0 ELSE 1) |->
              <<section, Head(keys), h[Head(keys)][i]>>]
         \o SectionRowsPerKey(section, h, Tail(keys))

\* the rows of one section: for each key in the order keys, one row per value
RECURSIVE SectionRows(_, _, _)
SectionRows(section, h, keys) ==
    IF keys = <<>> THEN <<>>
    ELSE [i \in 1..Len(h[Head(keys)]) |-> <<section, Head(keys), h[Head(keys)][i]>>]
         \o SectionRows(section, h, Tail(keys))

\* the orders in which a range over a map with key set S may visit the keys
Orders(S) ==
    {q \in [1..Cardinality(S) -> S] : \A i, j \in 1..Cardinality(S) : q[i] = q[j] => i = j}

\* reqKeys, respKeys: the order in which the two range loops visit the keys
HeaderReporterReport(s, reqKeys, respKeys) ==
    Ok(Table(<<"", "Key", "Value">>,
             SectionRows("Request", s.RequestHeaders, reqKeys)
                 \o SectionRows("Response", s.ResponseHeaders, respKeys),
             <<>>))

\* a variant that reports the second required header before the first
IpfsGwRequiredPopFirst(h) ==
    IF IsNil(h, "X-Ipfs-Pop")
    THEN "Header X-Ipfs-Pop is not present in response"
    ELSE IF IsNil(h, "X-Ipfs-Lb-Pop")
    THEN "Header X-Ipfs-Lb-Pop is not present in response"
    ELSE Nil

\* the two checks that open IpfsGwReporter.Report: the error, or Nil
IpfsGwRequired(h) ==
    IF IsNil(h, "X-Ipfs-Lb-Pop")
    THEN "Header X-Ipfs-Lb-Pop is not present in response"
    ELSE IF IsNil(h, "X-Ipfs-Pop")
    THEN "Header X-Ipfs-Pop is not present in response"
    ELSE Nil

\* a variant that prints the last value of X-Proxy-Cache
IpfsGwCacheLineLast(h) ==
    IF ~IsNil(h, "X-Proxy-Cache")
    THEN << <<"The request was an IPFS gateway cache",
              h["X-Proxy-Cache"][Len(h["X-Proxy-Cache"])]>> >>
    ELSE <<>>

\* the line written after the table (X-Proxy-Cache has a first value here)
IpfsGwCacheLine(h) ==
    IF ~IsNil(h, "X-Proxy-Cache")
    THEN << <<"The request was an IPFS gateway cache", h["X-Proxy-Cache"][1]>> >>
    ELSE <<>>

IpfsGwReporterReport(s) ==
    LET h == s.ResponseHeaders IN
    IF IpfsGwRequired(h) # Nil
    THEN Err(IpfsGwRequired(h))
    ELSE IF s.Session.Local = Nil \/ s.Session.Remote = Nil
    THEN Panic("nil pointer dereference")
    ELSE IF NoFirst(h, "X-Ipfs-Lb-Pop") \/ NoFirst(h, "X-Ipfs-Pop")
    THEN Panic("index out of range")
    ELSE IF ~IsNil(h, "X-Proxy-Cache") /\ NoFirst(h, "X-Proxy-Cache")
    THEN Panic("index out of range")
    ELSE Ok(Table(<<"Client", "Gateway", "Load Balancer", "IPFS Node">>,
                  << <<s.Session.Local, s.Session.Remote,
                       h["X-Ipfs-Lb-Pop"][1], h["X-Ipfs-Pop"][1]>> >>,
                  IpfsGwCacheLine(h)))

\* a variant that checks Saturn-Node-Version before Saturn-Node-Id
SaturnRequiredVersionFirst(h) ==
    IF IsNil(h, "Saturn-Transfer-Id")
    THEN "Header Saturn-Transfer-Id not present in response"
    ELSE IF IsNil(h, "Saturn-Node-Version")
    THEN "Header Saturn-Node-Version not present in response"
    ELSE IF IsNil(h, "Saturn-Node-Id")
    THEN "Header Saturn-Node-Id not present in response"
    ELSE IF IsNil(h, "Saturn-Cache-Status")
    THEN "Header Saturn-Cache-Status not present in response"
    ELSE Nil

\* the four checks that open SaturnReporter.Report: the error, or Nil
SaturnRequired(h) ==
    IF IsNil(h, "Saturn-Transfer-Id")
    THEN "Header Saturn-Transfer-Id not present in response"
    ELSE IF IsNil(h, "Saturn-Node-Id")
    THEN "Header Saturn-Node-Id not present in response"
    ELSE IF IsNil(h, "Saturn-Node-Version")
    THEN "Header Saturn-Node-Version not present in response"
    ELSE IF IsNil(h, "Saturn-Cache-Status")
    THEN "Header Saturn-Cache-Status not present in response"
    ELSE Nil

SaturnReporterReport(s) ==
    LET h == s.ResponseHeaders IN
    IF SaturnRequired(h) # Nil
    THEN Err(SaturnRequired(h))
    ELSE IF s.Session.Local = Nil \/ s.Session.Remote = Nil
    THEN Panic("nil pointer dereference")
    ELSE IF \/ NoFirst(h, "Saturn-Transfer-Id") \/ NoFirst(h, "Saturn-Node-Id")
            \/ NoFirst(h, "Saturn-Node-Version") \/ NoFirst(h, "Saturn-Cache-Status")
    THEN Panic("index out of range")
    ELSE Ok(Table(<<"Client", "Transfer ID", "Saturn Node", "Saturn Node ID",
                    "Node Version", "Cache Status">>,
                  << <<s.Session.Local, h["Saturn-Transfer-Id"][1],
                       s.Session.Remote, h["Saturn-Node-Id"][1],
                       h["Saturn-Node-Version"][1], h["Saturn-Cache-Status"][1]>> >>,
                  <<>>))

reportersList == {"Connection", "Header", "IPFSGW", "Saturn"}

\* reportersList[rep].Title()
Title(rep) ==
    CASE rep = "Connection" -> "Session Establishment"
      [] rep = "Header" -> "Request and Response Headers"
      [] rep = "IPFSGW" -> "IPFS Gateway Path"
      [] rep = "Saturn" -> "Saturn CDN"

\* reportersList[rep].Description()
Description(rep) ==
    CASE rep = "Connection" ->
             "Shows the timing for various stages of establishment of a HTTP/HTTPS session"
      [] rep = "Header" -> "Shows Request and Response headers from a HTTP/HTTPS request"
      [] rep = "IPFSGW" -> "Shows Information about the path through the IPFS Gateway"
      [] rep = "Saturn" -> "Shows information about Saturn CDN, where applicable"

\* a variant in which HeaderReporter.Report drops the headers it has printed
SnapshotAfterConsuming(rep, s) ==
    IF rep = "Header"
    THEN [s EXCEPT !.RequestHeaders = NoHeaders, !.ResponseHeaders = NoHeaders]
    ELSE s

\* the collector after reportersList[rep].Report(s): Report is handed a pointer
\* to the collector, and no reporter assigns through it
SnapshotAfter(rep, s) == s

----------------------------------------------------------------------------
(* Reporting: Report is a function of the snapshot it is given.  The
   snapshots are collectors as the methods above can leave them: any phase
   may never have run (its timestamps unset), a phase may have been started
   again after it ended, the session may never have been acquired, and the
   response may carry any of the gateway and CDN headers. *)

Times == {ZeroNs, <<1, 1000>>, <<1, 500000000>>}

IpfsKeys == {"X-Ipfs-Lb-Pop", "X-Ipfs-Pop", "X-Proxy-Cache"}

SaturnKeys == {"Saturn-Transfer-Id", "Saturn-Node-Id",
               "Saturn-Node-Version", "Saturn-Cache-Status"}

HeaderValues(k) ==
    CASE k = "X-Ipfs-Lb-Pop" -> <<"gateway-bank1-sg1", "gateway-bank2-sg1">>
      [] k = "X-Ipfs-Pop" -> <<"ipfs-bank5-sg1", "ipfs-bank6-sg1">>
      [] k = "X-Proxy-Cache" -> <<"HIT", "MISS">>
      [] k = "Saturn-Transfer-Id" -> <<"t1", "t2">>
      [] k = "Saturn-Node-Id" -> <<"n1", "n2">>
      [] k = "Saturn-Node-Version" -> <<"v1", "v2">>
      [] k = "Saturn-Cache-Status" -> <<"HIT", "MISS">>

\* a response with the keys K, each with its first n values (n = 0: a key
\* with an empty, non-nil value list)
GatewayResponse(K, n) == [k \in K |-> SubSeq(HeaderValues(k), 1, n)]

GatewayResponses ==
    {GatewayResponse(K, n) : K \in (SUBSET IpfsKeys) \cup (SUBSET SaturnKeys), n \in 0..2}

\* the collector after the hooks that ran at the times given (ZeroNs: never ran)
TimedSnapshot(dns, conn, tls, sessEnd, reqStart, firstByte) ==
    [StatsCollector EXCEPT
        !.Dns.StartTime = dns[1], !.Dns.EndTime = dns[2],
        !.Connection.StartTime = conn[1], !.Connection.EndTime = conn[2],
        !.Tls.StartTime = tls[1], !.Tls.EndTime = tls[2],
        !.Session.EndTime = sessEnd,
        !.Request.StartTime = reqStart,
        !.FirstByteTime = firstByte]

TimedSnapshots ==
    {TimedSnapshot(dns, conn, tls, se, rs, fb) :
        dns \in Times \X Times, conn \in Times \X Times, tls \in Times \X Times,
        se \in Times, rs \in Times, fb \in Times}

\* the collector after SetRequestHeaders, SetResponseHeaders and, unless
\* local is Nil, GotSession
HeaderSnapshot(local, remote, reqh, resph) ==
    [StatsCollector EXCEPT
        !.Session.Local = local, !.Session.Remote = remote,
        !.RequestHeaders = reqh, !.ResponseHeaders = resph]

HeaderSnapshots ==
    {HeaderSnapshot(a[1], a[2], NoHeaders, h) :
        a \in {<<Nil, Nil>>} \cup (LocalAddrs \X Addresses), h \in GatewayResponses}
    \cup
    {HeaderSnapshot(Nil, Nil, rq, rs) :
        rq \in RequestHeaderMaps, rs \in {NoHeaders, PlainResponse}}

InitReport ==
    /\ c \in TimedSnapshots \cup HeaderSnapshots
    /\ clock = <<2, 0>>
    /\ written = <<>>
    /\ hooks = 0
    /\ out = NoOutcome
    /\ run = NotRun
    /\ calls = <<>>

ConnectionReport ==
    /\ out' = [rep |-> "Connection", res |-> ConnectionReporterReport(c)]
    /\ c' = SnapshotAfter("Connection", c)
    /\ UNCHANGED <<clock, written, hooks, run, calls>>

HeaderReport ==
    \E reqKeys \in Orders(DOMAIN c.RequestHeaders),
       respKeys \in Orders(DOMAIN c.ResponseHeaders) :
        /\ out' = [rep |-> "Header", res |-> HeaderReporterReport(c, reqKeys, respKeys)]
        /\ c' = SnapshotAfter("Header", c)
        /\ UNCHANGED <<clock, written, hooks, run, calls>>

IPFSGatewayReport ==
    /\ out' = [rep |-> "IPFSGW", res |-> IpfsGwReporterReport(c)]
    /\ c' = SnapshotAfter("IPFSGW", c)
    /\ UNCHANGED <<clock, written, hooks, run, calls>>

SaturnCDNReport ==
    /\ out' = [rep |-> "Saturn", res |-> SaturnReporterReport(c)]
    /\ c' = SnapshotAfter("Saturn", c)
    /\ UNCHANGED <<clock, written, hooks, run, calls>>

NextReport ==
    \/ ConnectionReport
    \/ HeaderReport
    \/ IPFSGatewayReport
    \/ SaturnCDNReport

SpecReport == InitReport /\ [][NextReport]_vars

----------------------------------------------------------------------------
(* The transport at work: it fires the hooks of one request, which may take
   several attempts (a redirect, a retry, a second address dialled), so a
   start hook may fire again after its done hook; a done hook fires only
   for a start hook that has fired and is not yet done.  The body copy runs
   between Start and Stop.  calls records each call and its arguments. *)

MaxCalls == 4      \* calls on the collector in one run of the transport
MaxTicks == 2      \* half seconds that go by in one run of the transport

Called(op, arg) == [op |-> op, arg |-> arg]

\* how many calls of op have been made
Count(op) == Cardinality({i \in 1..Len(calls) : calls[i].op = op})

\* a start hook has fired that its done hook has not yet answered
Pending(startOp, doneOp) == Count(startOp) > Count(doneOp)

\* half seconds gone by since the clock started
Ticks(t) == 2 * (t[1] - 1) + (IF t[2] >= NsPerSec \div 2 THEN 1 ELSE 0)

HooksTock ==
    /\ Ticks(clock) < MaxTicks
    /\ Tock

Fired(op, arg, s) ==
    /\ calls' = Append(calls, Called(op, arg))
    /\ c' = s
    /\ UNCHANGED <<clock, written, hooks, out, run>>

FireDNSStart ==
    /\ Len(calls) < MaxCalls
    /\ \E host \in Hosts : Fired("StartDns", <<host>>, StartDns(c, clock, host))

FireDNSDone ==
    /\ Len(calls) < MaxCalls
    /\ Pending("StartDns", "EndDns")
    /\ \E addrs \in IPAddrs : Fired("EndDns", <<addrs>>, EndDns(c, clock, addrs))

FireConnectStart ==
    /\ Len(calls) < MaxCalls
    /\ \E net \in Networks, addr \in Addresses :
           Fired("StartConnect", <<net, addr>>, StartConnect(c, clock, net, addr))

FireConnectDone ==
    /\ Len(calls) < MaxCalls
    /\ Pending("StartConnect", "EndConnect")
    /\ \E net \in Networks, addr \in Addresses, err \in ConnErrors :
           Fired("EndConnect", <<net, addr, err>>, EndConnect(c, clock, net, addr, err))

FireTLSHandshakeStart ==
    /\ Len(calls) < MaxCalls
    /\ Fired("StartTls", <<>>, StartTls(c, clock))

FireTLSHandshakeDone ==
    /\ Len(calls) < MaxCalls
    /\ Pending("StartTls", "EndTls")
    /\ \E v \in TlsVersions, cs \in CipherSuites, n \in Hosts :
           Fired("EndTls", <<v, cs, n>>, EndTls(c, clock, v, cs, n))

FireGetConn ==
    /\ Len(calls) < MaxCalls
    /\ \E hostPort \in HostPorts :
           Fired("StartSession", <<hostPort>>, StartSession(c, clock, hostPort))

FireGotConn ==
    /\ Len(calls) < MaxCalls
    /\ Pending("StartSession", "GotSession")
    /\ \E local \in LocalAddrs, remote \in Addresses :
           Fired("GotSession", <<local, remote>>, GotSession(c, clock, local, remote))

FireWroteRequest ==
    /\ Len(calls) < MaxCalls
    /\ \E e \in WriteErrors : Fired("WroteRequest", <<e>>, WroteRequest(c, clock, e))

FireGotFirstResponseByte ==
    /\ Len(calls) < MaxCalls
    /\ Fired("FirstByteReceived", <<>>, FirstByteReceived(c, clock))

TransferStart ==
    /\ Len(calls) < MaxCalls
    /\ Fired("Start", <<>>, Start(c, clock))

TransferStop ==
    /\ Len(calls) < MaxCalls
    /\ Pending("Start", "Stop")
    /\ Fired("Stop", <<>>, Stop(c, clock))

TransferWrite ==
    /\ Len(calls) < MaxCalls
    /\ \E n \in ChunkSizes : Fired("Write", <<n>>, Write(c, n, Unix(clock)).c)

NextHooks ==
    \/ HooksTock
    \/ FireDNSStart \/ FireDNSDone
    \/ FireConnectStart \/ FireConnectDone
    \/ FireTLSHandshakeStart \/ FireTLSHandshakeDone
    \/ FireGetConn \/ FireGotConn
    \/ FireWroteRequest
    \/ FireGotFirstResponseByte
    \/ TransferStart \/ TransferStop
    \/ TransferWrite

SpecHooks == Init /\ [][NextHooks]_vars

----------------------------------------------------------------------------
(* main: one run of the program.  run.pc is the place main has reached;
   the flags are fixed before main starts and each is drawn at the place
   main first reads it.  While cli.Do is in progress the transport fires
   the hooks in protocol order (run.trace is the latest one), here for a
   request to a named host that takes one attempt; the binding of the
   hooks to the transport is outside the program, and the hooks of the
   request are taken to have fired by the time Do returns.  A response's header map has at
   least one value under each key, and a connection that was obtained has
   a local and a remote address.  run.log is what the loop over the names
   has printed, out the result of the latest Report. *)

MaxNames == 3      \* names in the -reporters list

\* names that may stand in the list: the catalog keys and a key in lower case
ReporterNames == reportersList \cup {"connection"}

\* strings.Split gives at least one name
NamesLists == UNION {[1..n -> ReporterNames] : n \in 1..MaxNames}

\* resp.Header: no gateway headers, or the two IPFS gateway classifies by
MainResponses == {PlainResponse, GatewayResponse({"X-Ipfs-Lb-Pop", "X-Ipfs-Pop"}, 1)}

\* io.Copy hands the body over in chunks of its buffer's size
MainChunks == {20}

Main0 ==
    [pc |-> "flags", trace |-> "", names |-> <<>>, i |-> 0,
     log |-> <<>>, failed |-> "", frozen |-> <<>>, code |-> -1]

InitMain ==
    /\ c = StatsCollector
    /\ clock = <<1, 0>>
    /\ written = <<>>
    /\ hooks = 0
    /\ out = NoOutcome
    /\ run = Main0
    /\ calls = <<>>

\* a variant in which main goes on to the reporters without calling Stop
ThenSkipsStop(pc) ==
    CASE pc = "flags" -> "headers"
      [] pc = "headers" -> "do"
      [] pc = "do" -> "create"
      [] pc = "create" -> "start"
      [] pc = "start" -> "copy"
      [] pc = "copy" -> "marshal"
      [] pc = "stop" -> "marshal"
      [] pc = "marshal" -> "reporters"
      [] pc = "reporters" -> "loop"
      [] pc = "loop" -> "done"

\* the place main goes on to when the step at pc succeeds
Then(pc) ==
    CASE pc = "flags" -> "headers"
      [] pc = "headers" -> "do"
      [] pc = "do" -> "create"
      [] pc = "create" -> "start"
      [] pc = "start" -> "copy"
      [] pc = "copy" -> "stop"
      [] pc = "stop" -> "marshal"
      [] pc = "marshal" -> "reporters"
      [] pc = "reporters" -> "loop"
      [] pc = "loop" -> "done"

\* os.Exit(code)
Exit(r, code) == [r EXCEPT !.pc = "exit", !.code = code]

\* a variant in which the failure is noted and main carries on
FatalCarriesOn(r, why) == [r EXCEPT !.failed = why, !.pc = Then(r.pc)]

\* log.Fatal and panic: the run ends here
Fatal(r, why) == [r EXCEPT !.failed = why, !.pc = "fatal", !.code = 2]

\* main calls op on the collector, or the transport does through a hook
MainCalls(op, arg, s) ==
    /\ calls' = Append(calls, Called(op, arg))
    /\ c' = s

\* -reporters list
MainListReporters ==
    /\ run.pc = "flags"
    /\ run' = Exit(run, 0)
    /\ UNCHANGED <<c, clock, written, hooks, out, calls>>

\* -uri missing, or neither http:// nor https://
MainBadUri ==
    /\ run.pc = "flags"
    /\ run' = Exit(run, 1)
    /\ UNCHANGED <<c, clock, written, hooks, out, calls>>

MainNewRequest ==
    /\ run.pc = "flags"
    /\ \E ok \in BOOLEAN :
           run' = IF ok THEN [run EXCEPT !.pc = Then("flags")] ELSE Fatal(run, "request")
    /\ UNCHANGED <<c, clock, written, hooks, out, calls>>

MainSetRequestHeaders ==
    /\ run.pc = "headers"
    /\ \E noCache \in BOOLEAN :
           LET h == IF noCache THEN NoCacheHeaders ELSE NoHeaders IN
           MainCalls("SetRequestHeaders", <<h>>, SetRequestHeaders(c, h))
    /\ run' = [run EXCEPT !.pc = Then("headers")]
    /\ UNCHANGED <<clock, written, hooks, out>>

\* time goes by while the response is awaited; the other steps of the run
\* fall within one reading of the clock
MainTock ==
    /\ run.pc = "do"
    /\ run.trace = "WroteRequest"
    /\ Ticks(clock) < MaxTicks
    /\ Tock

\* the transport fires the hook `hook`, which calls op
Traced(hook, op, arg, s) ==
    /\ MainCalls(op, arg, s)
    /\ run' = [run EXCEPT !.trace = hook]
    /\ UNCHANGED <<clock, written, hooks, out>>

DoGetConn ==
    /\ run.pc = "do"
    /\ run.trace = ""
    /\ \E hostPort \in HostPorts :
           Traced("GetConn", "StartSession", <<hostPort>>, StartSession(c, clock, hostPort))

DoDNSStart ==
    /\ run.pc = "do"
    /\ run.trace = "GetConn"
    /\ \E host \in Hosts : Traced("DNSStart", "StartDns", <<host>>, StartDns(c, clock, host))

DoDNSDone ==
    /\ run.pc = "do"
    /\ run.trace = "DNSStart"
    /\ \E addrs \in IPAddrs : Traced("DNSDone", "EndDns", <<addrs>>, EndDns(c, clock, addrs))

DoConnectStart ==
    /\ run.pc = "do"
    /\ run.trace = "DNSDone"
    /\ \E net \in Networks, addr \in Addresses :
           Traced("ConnectStart", "StartConnect", <<net, addr>>,
                  StartConnect(c, clock, net, addr))

DoConnectDone ==
    /\ run.pc = "do"
    /\ run.trace = "ConnectStart"
    /\ \E net \in Networks, addr \in Addresses, err \in ConnErrors :
           Traced("ConnectDone", "EndConnect", <<net, addr, err>>,
                  EndConnect(c, clock, net, addr, err))

DoTLSHandshakeStart ==
    /\ run.pc = "do"
    /\ run.trace = "ConnectDone"
    /\ c.Connection.Error = Nil
    /\ Traced("TLSHandshakeStart", "StartTls", <<>>, StartTls(c, clock))

DoTLSHandshakeDone ==
    /\ run.pc = "do"
    /\ run.trace = "TLSHandshakeStart"
    /\ \E v \in TlsVersions, cs \in CipherSuites, n \in Hosts :
           Traced("TLSHandshakeDone", "EndTls", <<v, cs, n>>, EndTls(c, clock, v, cs, n))

\* the connection is handed to the request: after the handshake, or after
\* the dial for http://
DoGotConn ==
    /\ run.pc = "do"
    /\ \/ run.trace = "TLSHandshakeDone"
       \/ run.trace = "ConnectDone" /\ c.Connection.Error = Nil
    /\ \E local \in LocalAddrs, remote \in Addresses :
           Traced("GotConn", "GotSession", <<local, remote>>,
                  GotSession(c, clock, local, remote))

DoWroteRequest ==
    /\ run.pc = "do"
    /\ run.trace = "GotConn"
    /\ \E e \in WriteErrors :
           Traced("WroteRequest", "WroteRequest", <<e>>, WroteRequest(c, clock, e))

DoGotFirstResponseByte ==
    /\ run.pc = "do"
    /\ run.trace = "WroteRequest"
    /\ c.Request.Error = Nil
    /\ Traced("GotFirstResponseByte", "FirstByteReceived", <<>>, FirstByteReceived(c, clock))

\* cli.Do returns an error (a failed phase, the 30 s timeout): panic
MainDoFails ==
    /\ run.pc = "do"
    /\ run' = Fatal(run, "transport")
    /\ UNCHANGED <<c, clock, written, hooks, out, calls>>

\* cli.Do returns the response; main hands its headers to the collector
MainDoReturns ==
    /\ run.pc = "do"
    /\ run.trace = "GotFirstResponseByte"
    /\ \E h \in MainResponses :
           MainCalls("SetResponseHeaders", <<h>>, SetResponseHeaders(c, h))
    /\ run' = [run EXCEPT !.pc = Then("do")]
    /\ UNCHANGED <<clock, written, hooks, out>>

\* os.Create(outFile)
MainCreate ==
    /\ run.pc = "create"
    /\ \E ok \in BOOLEAN :
           run' = IF ok THEN [run EXCEPT !.pc = Then("create")] ELSE Fatal(run, "output")
    /\ UNCHANGED <<c, clock, written, hooks, out, calls>>

MainStart ==
    /\ run.pc = "start"
    /\ MainCalls("Start", <<>>, Start(c, clock))
    /\ run' = [run EXCEPT !.pc = Then("start")]
    /\ UNCHANGED <<clock, written, hooks, out>>

\* io.Copy reads a chunk of the body through the TeeReader
MainCopyWrite ==
    /\ run.pc = "copy"
    /\ Len(written) < MaxWrites
    /\ \E n \in MainChunks :
           LET r == Write(c, n, Unix(clock)) IN
           /\ MainCalls("Write", <<n>>, r.c)
           /\ written' = Append(written,
                  [n |-> n, curr |-> Unix(clock), sec |-> c.CurrentSecond,
                   ret |-> r.n, err |-> r.err])
    /\ UNCHANGED <<clock, hooks, out, run>>

\* io.Copy returns an error (the body read or the file write failed): panic
MainCopyFails ==
    /\ run.pc = "copy"
    /\ run' = Fatal(run, "copy")
    /\ UNCHANGED <<c, clock, written, hooks, out, calls>>

\* io.Copy returns at the end of the body
MainCopyEnds ==
    /\ run.pc = "copy"
    /\ run' = [run EXCEPT !.pc = Then("copy")]
    /\ UNCHANGED <<c, clock, written, hooks, out, calls>>

MainStop ==
    /\ run.pc = "stop"
    /\ MainCalls("Stop", <<>>, Stop(c, clock))
    /\ run' = [run EXCEPT !.pc = Then("stop"), !.frozen = <<Stop(c, clock)>>]
    /\ UNCHANGED <<clock, written, hooks, out>>

\* json.Marshal(httpStats)
MainMarshal ==
    /\ run.pc = "marshal"
    /\ \E ok \in BOOLEAN :
           run' = IF ok THEN [run EXCEPT !.pc = Then("marshal")] ELSE Fatal(run, "marshal")
    /\ UNCHANGED <<c, clock, written, hooks, out, calls>>

\* -reporters not given
MainNoReporters ==
    /\ run.pc = "reporters"
    /\ run' = Exit(run, 0)
    /\ UNCHANGED <<c, clock, written, hooks, out, calls>>

\* strings.Split(reporters, ",")
MainSplit ==
    /\ run.pc = "reporters"
    /\ \E names \in NamesLists :
           run' = [run EXCEPT !.pc = Then("reporters"), !.names = names, !.i = 1]
    /\ UNCHANGED <<c, clock, written, hooks, out, calls>>

\* what reportersList[rep].Report(s) may return
ReportOutcomes(rep, s) ==
    CASE rep = "Connection" -> {ConnectionReporterReport(s)}
      [] rep = "Header" ->
            {HeaderReporterReport(s, reqKeys, respKeys) :
                reqKeys \in Orders(DOMAIN s.RequestHeaders),
                respKeys \in Orders(DOMAIN s.ResponseHeaders)}
      [] rep = "IPFSGW" -> {IpfsGwReporterReport(s)}
      [] rep = "Saturn" -> {SaturnReporterReport(s)}

\* what one turn of the loop leaves behind for the name rep
\* kind "ok": the name, the title, the description and the body are printed;
\* "failed": the name and the error; "skip": the name is logged as unknown.
\* title and description are what was printed of them ("": nothing)
Outcome(rep, kind) ==
    [rep |-> rep, kind |-> kind,
     title |-> IF kind = "ok" THEN Title(rep) ELSE "",
     description |-> IF kind = "ok" THEN Description(rep) ELSE ""]

\* a variant in which an unknown name ends the loop
DispatchedStopsAtUnknown(r, e) ==
    [r EXCEPT !.log = Append(@, e),
              !.i = IF e.kind = "skip" THEN Len(r.names) + 1 ELSE @ + 1]

\* a variant in which a failed reporter ends the loop
DispatchedStopsAtError(r, e) ==
    [r EXCEPT !.log = Append(@, e),
              !.i = IF e.kind = "failed" THEN Len(r.names) + 1 ELSE @ + 1]

\* the loop has dealt with a name and goes on to the next
Dispatched(r, e) == [r EXCEPT !.log = Append(@, e), !.i = @ + 1]

\* the name is a key of reportersList: Report is called and its result or its
\* error is printed
MainReport ==
    /\ run.pc = "loop"
    /\ run.i <= Len(run.names)
    /\ run.names[run.i] \in reportersList
    /\ LET rep == run.names[run.i] IN
       /\ \E res \in ReportOutcomes(rep, c) :
              /\ out' = [rep |-> rep, res |-> res]
              /\ run' = IF res.kind = "panic"
                        THEN [run EXCEPT !.pc = "panic", !.code = 2]
                        ELSE Dispatched(run,
                                 Outcome(rep, IF res.kind = "ok" THEN "ok" ELSE "failed"))
       /\ MainCalls("Report", <<rep>>, SnapshotAfter(rep, c))
    /\ UNCHANGED <<clock, written, hooks>>

\* the name is not a key: "Unknown reporter" is logged
MainUnknownReporter ==
    /\ run.pc = "loop"
    /\ run.i <= Len(run.names)
    /\ run.names[run.i] \notin reportersList
    /\ run' = Dispatched(run, Outcome(run.names[run.i], "skip"))
    /\ UNCHANGED <<c, clock, written, hooks, out, calls>>

\* the loop is over and main returns
MainReturn ==
    /\ run.pc = "loop"
    /\ run.i > Len(run.names)
    /\ run' = [run EXCEPT !.pc = Then("loop"), !.code = 0]
    /\ UNCHANGED <<c, clock, written, hooks, out, calls>>

NextMain ==
    \/ MainListReporters \/ MainBadUri \/ MainNewRequest
    \/ MainSetRequestHeaders
    \/ MainTock
    \/ DoGetConn
    \/ DoDNSStart \/ DoDNSDone
    \/ DoConnectStart \/ DoConnectDone
    \/ DoTLSHandshakeStart \/ DoTLSHandshakeDone
    \/ DoGotConn
    \/ DoWroteRequest
    \/ DoGotFirstResponseByte
    \/ MainDoFails \/ MainDoReturns
    \/ MainCreate
    \/ MainStart
    \/ MainCopyWrite \/ MainCopyFails \/ MainCopyEnds
    \/ MainStop
    \/ MainMarshal
    \/ MainNoReporters \/ MainSplit
    \/ MainReport \/ MainUnknownReporter
    \/ MainReturn

SpecMain == InitMain /\ [][NextMain]_vars

----------------------------------------------------------------------------
(* Properties *)

\* the sizes of the chunks written so far
RECURSIVE Sizes(_)
Sizes(w) == IF w = <<>> THEN <<>> ELSE <<Head(w).n>> \o Sizes(Tail(w))

IsSet(t) == t # ZeroNs

ConnReported == out.rep = "Connection" /\ out.res.kind = "ok"

\* the i-th duration of the data row of the latest ConnectionReport
Duration(i) == out.res.ret.rows[1][i]

\* C1 (as claimed): for each of the phases DNS lookup, TCP connect and TLS
\* handshake whose start and end are both set, the duration ConnectionReport
\* reports is that phase's own end minus that phase's own start.
C1_OwnPhaseDuration ==
    ConnReported =>
        /\ IsSet(c.Dns.StartTime) /\ IsSet(c.Dns.EndTime) =>
               Duration(1) = SprintfF(NsDiffInSeconds(c.Dns.EndTime, c.Dns.StartTime))
        /\ IsSet(c.Connection.StartTime) /\ IsSet(c.Connection.EndTime) =>
               Duration(2) = SprintfF(NsDiffInSeconds(c.Connection.EndTime,
                                                      c.Connection.StartTime))
        /\ IsSet(c.Tls.StartTime) /\ IsSet(c.Tls.EndTime) =>
               Duration(3) = SprintfF(NsDiffInSeconds(c.Tls.EndTime, c.Tls.StartTime))

AllInOneSecond == \A i, j \in 1..Len(written) : written[i].curr = written[j].curr

AllInRecordedSecond == \A i \in 1..Len(written) : written[i].curr <= written[i].sec

\* C2 (as claimed): from a collector with an empty per-second series, Writes
\* that are all observed within the same wall-clock second leave the series
\* empty and the accumulator equal to the sum of the chunk sizes.
C2_SameSecondKeepsSeriesEmpty ==
    written # <<>> /\ AllInOneSecond =>
        c.PerSecond = <<>> /\ c.CurrentSecBytes = SumSeq(Sizes(written))

\* C2 (amended): from a collector with an empty per-second series, Writes
\* that are each observed within the second the collector has recorded as
\* current (the second of FirstByteReceived) leave the series empty and the
\* accumulator equal to the sum of the chunk sizes.
C2_RecordedSecondKeepsSeriesEmpty ==
    written # <<>> /\ AllInRecordedSecond =>
        c.PerSecond = <<>> /\ c.CurrentSecBytes = SumSeq(Sizes(written))

C2_Witness ==
    /\ Len(written) = MaxWrites
    /\ AllInRecordedSecond
    /\ written[1].n # written[2].n
    /\ c.CurrentSecBytes = SumSeq(Sizes(written))

\* the step is a Write
Wrote == Len(written') = Len(written) + 1

\* C3: a Write of N bytes observed in a later second than the recorded
\* current second appends exactly one entry to the per-second series, the
\* accumulator held just before the Write, and leaves the accumulator at N,
\* however many seconds have passed.
C3_BoundaryAppendsOne ==
    [][Wrote /\ written'[Len(written')].curr > c.CurrentSecond =>
           /\ c'.PerSecond = Append(c.PerSecond, c.CurrentSecBytes)
           /\ c'.CurrentSecBytes = written'[Len(written')].n]_vars

\* two Writes more than one second apart: the second appends one entry
C3_Witness ==
    /\ Len(written) >= 2
    /\ written[2].sec = written[1].curr
    /\ written[2].curr >= written[1].curr + 2
    /\ c.PerSecond = <<0, written[1].n>>
    /\ c.CurrentSecBytes = written[2].n

\* C4: every Write of N bytes reports N bytes accepted and no error, and the
\* running total is the sum of the sizes of all chunks written.
C4_TotalIsSumOfChunks ==
    /\ TotalBytesTransferred(c) = SumSeq(Sizes(written))
    /\ \A i \in 1..Len(written) : written[i].ret = written[i].n /\ written[i].err = Nil

C4_Witness ==
    /\ Len(written) = MaxWrites
    /\ c.PerSecond # <<>>
    /\ c.FirstByteTime # ZeroNs
    /\ TotalBytesTransferred(c) > c.CurrentSecBytes

Reported(rep) == out.rep = rep

Present(k) == k \in DOMAIN c.ResponseHeaders

\* C5 (as claimed): every Report call on every snapshot ends normally, with a
\* body or with an error value; none aborts the run.
C5_ReportEndsNormally == out.res.kind \in {"none", "ok", "err"}

\* C6: IPFSGatewayReport fails whenever X-Ipfs-Lb-Pop or X-Ipfs-Pop is absent,
\* with no body, and its error names X-Ipfs-Lb-Pop when that header is absent
\* and X-Ipfs-Pop when only that one is.
C6_IpfsNamesFirstAbsent ==
    Reported("IPFSGW") =>
        /\ ~Present("X-Ipfs-Lb-Pop") =>
               out.res = [kind |-> "err", ret |-> "",
                          e |-> "Header X-Ipfs-Lb-Pop is not present in response"]
        /\ Present("X-Ipfs-Lb-Pop") /\ ~Present("X-Ipfs-Pop") =>
               out.res = [kind |-> "err", ret |-> "",
                          e |-> "Header X-Ipfs-Pop is not present in response"]

\* both required headers absent, X-Proxy-Cache present
C6_Witness ==
    /\ Reported("IPFSGW")
    /\ DOMAIN c.ResponseHeaders = {"X-Proxy-Cache"}
    /\ out.res.kind = "err"

SaturnOrder == <<"Saturn-Transfer-Id", "Saturn-Node-Id",
                 "Saturn-Node-Version", "Saturn-Cache-Status">>

SaturnMessage(k) ==
    CASE k = "Saturn-Transfer-Id" -> "Header Saturn-Transfer-Id not present in response"
      [] k = "Saturn-Node-Id" -> "Header Saturn-Node-Id not present in response"
      [] k = "Saturn-Node-Version" -> "Header Saturn-Node-Version not present in response"
      [] k = "Saturn-Cache-Status" -> "Header Saturn-Cache-Status not present in response"

\* C7: SaturnCDNReport fails whenever one of its four headers is absent, and
\* whichever headers are absent the error names the first absent one in the
\* order Saturn-Transfer-Id, Saturn-Node-Id, Saturn-Node-Version,
\* Saturn-Cache-Status.
C7_SaturnNamesFirstAbsent ==
    Reported("Saturn") =>
        \A i \in 1..Len(SaturnOrder) :
            (~Present(SaturnOrder[i]) /\ \A j \in 1..(i - 1) : Present(SaturnOrder[j])) =>
                out.res.kind = "err" /\ out.res.e = SaturnMessage(SaturnOrder[i])

\* the second and the third header absent, the others present
C7_Witness ==
    /\ Reported("Saturn")
    /\ DOMAIN c.ResponseHeaders = {"Saturn-Transfer-Id", "Saturn-Cache-Status"}
    /\ out.res.kind = "err"

\* the values of the rows of a section that carry the key k, in row order
RECURSIVE ValuesOf(_, _, _)
ValuesOf(rows, section, k) ==
    IF rows = <<>> THEN <<>>
    ELSE (IF Head(rows)[1] = section /\ Head(rows)[2] = k
          THEN <<Head(rows)[3]>> ELSE <<>>)
         \o ValuesOf(Tail(rows), section, k)

RECURSIVE CountValues(_, _)
CountValues(h, keys) ==
    IF keys = {} THEN 0
    ELSE LET k == CHOOSE x \in keys : TRUE
         IN Len(h[k]) + CountValues(h, keys \ {k})

SectionCount(rows, section) ==
    Cardinality({i \in 1..Len(rows) : rows[i][1] = section})

\* C8: HeaderReport succeeds on every snapshot and emits one row per header
\* value: the Request rows are as many as the values of all request header
\* keys, the Response rows as many as the values of all response header keys,
\* and the rows of a key carry its section, the key and its values.
C8_OneRowPerValue ==
    Reported("Header") =>
        LET rows == out.res.ret.rows IN
        /\ out.res.kind = "ok"
        /\ Len(rows) = SectionCount(rows, "Request") + SectionCount(rows, "Response")
        /\ SectionCount(rows, "Request")
               = CountValues(c.RequestHeaders, DOMAIN c.RequestHeaders)
        /\ SectionCount(rows, "Response")
               = CountValues(c.ResponseHeaders, DOMAIN c.ResponseHeaders)
        /\ \A k \in DOMAIN c.RequestHeaders :
               ValuesOf(rows, "Request", k) = c.RequestHeaders[k]
        /\ \A k \in DOMAIN c.ResponseHeaders :
               ValuesOf(rows, "Response", k) = c.ResponseHeaders[k]

\* a multi-valued request header and no response header
C8_Witness ==
    /\ Reported("Header")
    /\ c.RequestHeaders = NoCacheHeaders
    /\ c.ResponseHeaders = NoHeaders
    /\ SectionCount(out.res.ret.rows, "Request") = 5

\* C9: a successful IPFSGatewayReport has the cache-status line exactly when
\* X-Proxy-Cache is present, and the line carries its first value.
C9_CacheLineIffHeader ==
    Reported("IPFSGW") /\ out.res.kind = "ok" =>
        /\ out.res.ret.tail # <<>> <=> Present("X-Proxy-Cache")
        /\ Present("X-Proxy-Cache") =>
               out.res.ret.tail =
                   << <<"The request was an IPFS gateway cache",
                        Head(c.ResponseHeaders["X-Proxy-Cache"])>> >>

\* X-Proxy-Cache with two values, HIT first
C9_Witness ==
    /\ Reported("IPFSGW")
    /\ out.res.kind = "ok"
    /\ Present("X-Proxy-Cache")
    /\ c.ResponseHeaders["X-Proxy-Cache"] = <<"HIT", "MISS">>

\* C10 (as claimed): with all four Saturn headers present, SaturnCDNReport
\* succeeds and emits client address, transfer id, node address, node id,
\* node version, cache status, each header field the header's first value.
C10_SaturnSixFields ==
    Reported("Saturn") /\ (\A i \in 1..Len(SaturnOrder) : Present(SaturnOrder[i])) =>
        /\ out.res.kind = "ok"
        /\ out.res.ret.rows =
               << <<c.Session.Local,
                    Head(c.ResponseHeaders["Saturn-Transfer-Id"]),
                    c.Session.Remote,
                    Head(c.ResponseHeaders["Saturn-Node-Id"]),
                    Head(c.ResponseHeaders["Saturn-Node-Version"]),
                    Head(c.ResponseHeaders["Saturn-Cache-Status"])>> >>

\* C13: no Report call changes the snapshot it is given, whether it succeeds
\* or fails: every field is the same after the call as before it.
C13_ReportLeavesSnapshot == [][c' = c]_vars

\* a failed call on a snapshot that carries a multi-valued header
C13_Witness ==
    /\ Reported("IPFSGW")
    /\ out.res.kind = "err"
    /\ Present("X-Ipfs-Lb-Pop")
    /\ c.ResponseHeaders["X-Ipfs-Lb-Pop"] = <<"gateway-bank1-sg1", "gateway-bank2-sg1">>

\* C15 (as claimed): two HeaderReport calls on the same snapshot produce the
\* same rows in the same order, whatever the iteration order of the maps.
C15_HeaderReportDeterministic ==
    [][Reported("Header") /\ out'.rep = "Header" /\ c' = c => out'.res = out.res]_vars

\* C18: ConnectionReport returns a body and no error on every snapshot,
\* whichever of the DNS, connect, TLS, session, request-written and
\* first-byte hooks never fired.
C18_ConnectionReportSucceeds ==
    Reported("Connection") =>
        /\ out.res.kind = "ok"
        /\ out.res.e = Nil
        /\ Len(out.res.ret.rows) = 2

\* no hook fired at all
C18_Witness ==
    /\ Reported("Connection")
    /\ c = StatsCollector
    /\ out.res.kind = "ok"
    /\ out.res.ret.rows[1] = <<0, 0, 0, 0, 0>>
\* e >= s on nanosecond timestamps
NsGeq(e, s) == \/ e[1] > s[1]
               \/ e[1] = s[1] /\ e[2] >= s[2]

EndNotBeforeStart(p) == IsSet(p.StartTime) /\ IsSet(p.EndTime) => NsGeq(p.EndTime, p.StartTime)

\* C16 (as claimed): while every done hook fires only after its start hook
\* (a pair may fire for more than one attempt) and the clock never goes
\* back, every phase (DNS, Connection, TLS, Session, the overall transfer)
\* that has both its start and its end set has end >= start.
C16_EndNotBeforeStart ==
    /\ EndNotBeforeStart(c.Dns)
    /\ EndNotBeforeStart(c.Connection)
    /\ EndNotBeforeStart(c.Tls)
    /\ EndNotBeforeStart(c.Session)
    /\ EndNotBeforeStart(c)

\* the step is a connect-done hook that carries an error
ConnectFailed ==
    /\ Len(calls') = Len(calls) + 1
    /\ calls'[Len(calls')].op = "EndConnect"
    /\ calls'[Len(calls')].arg[3] # Nil

\* C17: a connect-done hook with an error records the error, the end
\* timestamp, the protocol and the address on the Connection phase and
\* changes nothing else: every other phase and counter is as before, so a
\* phase whose hooks never fire stays unset.
C17_ConnectFailureRecorded ==
    [][ConnectFailed =>
           c' = [c EXCEPT !.Connection =
                     [StartTime |-> c.Connection.StartTime,
                      EndTime   |-> clock,
                      Protocol  |-> calls'[Len(calls')].arg[1],
                      Address   |-> calls'[Len(calls')].arg[2],
                      Error     |-> calls'[Len(calls')].arg[3]]]]_vars

\* after a failed connect the collector took a second connect attempt and a
\* Write; TLS never ran and is still unset
C17_Witness ==
    /\ Len(calls) = 4
    /\ calls[2].op = "EndConnect" /\ calls[2].arg[3] # Nil
    /\ calls[3].op = "StartConnect"
    /\ calls[4].op = "Write"
    /\ c.Connection.Error # Nil
    /\ NsGeq(c.Connection.StartTime, c.Connection.EndTime)
    /\ c.Connection.StartTime # c.Connection.EndTime
    /\ c.Tls.StartTime = ZeroNs /\ c.Tls.EndTime = ZeroNs
    /\ c.TotalBytes > 0

\* the latest call on the collector was op, made in this step
JustCalled(op) ==
    /\ Len(calls') = Len(calls) + 1
    /\ calls'[Len(calls')].op = op

\* C19: Stop leaves the per-second series, the current-second accumulator
\* and the total as they were, so the bytes written since the last second
\* boundary (the accumulator) are in the total and in no entry of the series.
C19_StopKeepsPartialSecond ==
    [][JustCalled("Stop") =>
          /\ c'.PerSecond = c.PerSecond
          /\ c'.CurrentSecBytes = c.CurrentSecBytes
          /\ c'.TotalBytes = c.TotalBytes
          /\ SumSeq(c'.PerSecond) = c'.TotalBytes - c'.CurrentSecBytes]_vars

\* Stop came after two chunks in different seconds: the first chunk is in the
\* series, the second only in the accumulator and the total
C19_Witness ==
    /\ calls # <<>>
    /\ calls[Len(calls)].op = "Stop"
    /\ Len(c.PerSecond) = 2
    /\ c.PerSecond[2] > 0
    /\ c.CurrentSecBytes > 0
    /\ c.TotalBytes = c.PerSecond[2] + c.CurrentSecBytes
    /\ IsSet(c.EndTime)

\* rep is a key of reportersList (the lookup compares the strings as they are)
Known(rep) == rep \in reportersList

\* the names Report was called for, in the order of the calls recorded in cs
ReportsMade(cs) ==
    LET rs == SelectSeq(cs, LAMBDA x : x.op = "Report")
    IN [k \in 1..Len(rs) |-> rs[k].arg[1]]

\* the outcome printed for a known name whose Report returned res
KindOf(res) == IF res.kind = "ok" THEN "ok" ELSE "failed"

\* C11: a name that is not exactly a key of the catalog is skipped and no
\* Report is called for it; every name of the list is dealt with once, in list
\* order, the known ones by one Report call each whose outcome is what Report
\* gives for that name on the snapshot taken at Stop, whatever stands before
\* or after it in the list.
C11_UnknownNameSkipped ==
    [][LET r == run' IN
       /\ r.pc = "loop" => Len(r.log) = r.i - 1 /\ r.i <= Len(r.names) + 1
       /\ r.pc = "done" =>
             /\ Len(r.log) = Len(r.names)
             /\ \A j \in 1..Len(r.names) :
                    /\ r.log[j].rep = r.names[j]
                    /\ r.log[j].kind = "skip" <=> ~Known(r.names[j])
             /\ ReportsMade(calls') = SelectSeq(r.names, Known)
       /\ JustCalled("Report") =>
             /\ Known(out'.rep)
             /\ out'.rep = r.names[run.i]
             /\ out'.res \in ReportOutcomes(out'.rep, run.frozen[1])
             /\ r.log = Append(run.log, Outcome(out'.rep, KindOf(out'.res)))
       /\ (run.pc = "loop" /\ r.pc = "loop" /\ ~JustCalled("Report")) =>
             /\ ~Known(r.names[run.i])
             /\ r.log = Append(run.log, Outcome(r.names[run.i], "skip"))
             /\ calls' = calls]_vars

\* the run is over; the list had an unknown name between two known ones,
\* the first of which succeeded and the last of which failed
C11_Witness ==
    /\ run.pc = "done"
    /\ Len(run.names) = 3
    /\ Known(run.names[1]) /\ ~Known(run.names[2]) /\ Known(run.names[3])
    /\ run.log[1].kind = "ok"
    /\ run.log[2].kind = "skip"
    /\ run.log[3].kind = "failed"
    /\ ReportsMade(calls) = <<run.names[1], run.names[3]>>

\* C12: after a reporter has returned an error, the known names after it in
\* the list are still reported, in list order, and each Report gives what it
\* gives for that name on the snapshot taken at Stop, as it would without
\* the failing reporter in the list.
C12_ErrorDoesNotStopBatch ==
    [][LET r == run' IN
       /\ r.pc = "done" =>
             \A j \in 1..Len(r.log) :
                 r.log[j].kind = "failed" =>
                     LET m == Len(SelectSeq(SubSeq(r.names, 1, j), Known))
                         made == ReportsMade(calls')
                     IN /\ Len(r.log) = Len(r.names)
                        /\ SubSeq(made, m + 1, Len(made))
                               = SelectSeq(SubSeq(r.names, j + 1, Len(r.names)), Known)
       /\ (JustCalled("Report") /\ \E j \in 1..Len(run.log) : run.log[j].kind = "failed") =>
             /\ out'.rep = run.names[run.i]
             /\ out'.res \in ReportOutcomes(out'.rep, run.frozen[1])]_vars

\* the first reporter of three failed and the two after it succeeded
C12_Witness ==
    /\ run.pc = "done"
    /\ Len(run.names) = 3
    /\ run.log[1].kind = "failed"
    /\ run.log[2].kind = "ok"
    /\ run.log[3].kind = "ok"
    /\ Len(ReportsMade(calls)) = 3

\* how many calls of op are recorded in cs
CountIn(cs, op) == Cardinality({i \in 1..Len(cs) : cs[i].op = op})

\* a call of op is recorded in cs
CalledIn(cs, op) == \E i \in 1..Len(cs) : cs[i].op = op

\* C14: Stop is called before the first Report; once Stop has been called no
\* hook, setter, Write, Start or Stop is called and the collector does not
\* change; every Report is handed the collector as Stop left it.
C14_FrozenAfterStop ==
    [][/\ JustCalled("Report") => CalledIn(calls, "Stop")
       /\ CalledIn(calls, "Stop") =>
             /\ c' = c
             /\ calls' # calls => calls' = Append(calls, Called("Report", <<out'.rep>>))
       /\ JustCalled("Report") =>
             /\ run.frozen # <<>>
             /\ c = run.frozen[1]
             /\ c' = c]_vars

\* the run is over: the body was written, Stop was called once, and two
\* reporters were handed the collector
C14_Witness ==
    /\ run.pc = "done"
    /\ CountIn(calls, "Write") > 0
    /\ CountIn(calls, "Stop") = 1
    /\ CountIn(calls, "Report") = 2
    /\ run.frozen = <<c>>
    /\ IsSet(c.EndTime)

\* C20: once the request could not be built, Do returned an error, the
\* output could not be created, the copy failed or the statistics could not
\* be marshalled, the run is over: main takes no further step, and no Report
\* has been or is called.
C20_FatalMeansNoReport ==
    [][/\ run.pc # "fatal"
       /\ run'.failed # "" =>
             /\ run'.pc = "fatal"
             /\ CountIn(calls', "Report") = 0
             /\ run'.log = <<>>
             /\ out' = NoOutcome]_vars

\* the copy failed after a chunk of the body had been written
C20_Witness ==
    /\ run.pc = "fatal"
    /\ run.failed = "copy"
    /\ CountIn(calls, "Write") > 0
    /\ CountIn(calls, "Report") = 0
    /\ run.frozen = <<>>

\* C21 (as claimed): for every name of the list that is a key of the catalog
\* the run prints the reporter's title and description together with its
\* body or its error, also when Report returned an error.
C21_TitleAndDescriptionAlways ==
    \A j \in 1..Len(run.log) :
        Known(run.log[j].rep) =>
            /\ run.log[j].kind \in {"ok", "failed"}
            /\ run.log[j].title = Title(run.log[j].rep)
            /\ run.log[j].description = Description(run.log[j].rep)

\* the nanoseconds from s to e, for timestamps less than two seconds apart
NsBetween(e, s) == (e[1] - s[1]) * NsPerSec + (e[2] - s[2])

\* a whole number of microseconds, in nanoseconds, as "%f" prints it: the
\* value in millionths of a second
Micros(ns) == ns \div 1000

\* C22: the fourth duration ConnectionReport gives is the request-written
\* timestamp minus the session-acquired timestamp and the fifth is the
\* first-byte timestamp minus the request-written timestamp, in seconds to
\* six places; when the three are set and in that order neither is negative.
C22_RequestAndFirstByteDurations ==
    ConnReported =>
        /\ Duration(4) = Micros(NsBetween(c.Request.StartTime, c.Session.EndTime))
        /\ Duration(5) = Micros(NsBetween(c.FirstByteTime, c.Request.StartTime))
        /\ ( /\ IsSet(c.Session.EndTime)
             /\ NsGeq(c.Request.StartTime, c.Session.EndTime)
             /\ NsGeq(c.FirstByteTime, c.Request.StartTime) ) =>
               Duration(4) >= 0 /\ Duration(5) >= 0

\* the request was written 0.499999 s after the session was acquired, which
\* was later than the dial ended, and the first byte came as it was written
C22_Witness ==
    /\ ConnReported
    /\ c.Connection.EndTime = ZeroNs
    /\ c.Session.EndTime = <<1, 1000>>
    /\ c.Request.StartTime = <<1, 500000000>>
    /\ c.FirstByteTime = <<1, 500000000>>
    /\ Duration(4) = 499999
    /\ Duration(5) = 0

\* C23: whatever hooks (FirstByteReceived among them), Writes, Start and
\* Stop have been called and in whatever order, the total is the sum of the
\* per-second series plus the current-second accumulator.
C23_BytesConserved ==
    c.TotalBytes = SumSeq(c.PerSecond) + c.CurrentSecBytes

\* FirstByteReceived came between two Writes, the first of which has since
\* been moved into the series
C23_Witness ==
    /\ Len(calls) >= 3
    /\ \E i, j, k \in 1..Len(calls) :
           /\ i < j /\ j < k
           /\ calls[i].op = "Write"
           /\ calls[j].op = "FirstByteReceived"
           /\ calls[k].op = "Write"
    /\ SumSeq(c.PerSecond) > 0
    /\ c.CurrentSecBytes > 0
    /\ c.TotalBytes = SumSeq(c.PerSecond) + c.CurrentSecBytes

====
